---------------------------- MODULE Spec2Model ----------------------------
(***************************************************************************)
(* Model of the two scripts of SurveillanceDiscordBot.                     *)
(*                                                                         *)
(*   src/main.py      locate the newest report folder, glob its JSON       *)
(*                    files, load the model, check the webhook URL, then   *)
(*                    per channel file: read, (summarize), POST.           *)
(*   src/llm/main.py  read discord_today_messages.json, build the prompt,  *)
(*                    write prompt.txt.                                    *)
(*                                                                         *)
(* Text is a sequence of tokens: a token is one character ("a", ":", " ",  *)
(* "\n") or one fixed phrase of a template, written in ASCII (the source   *)
(* phrases are Japanese).  The file system, the environment variable, the  *)
(* model file and the message logs are the inputs, chosen in Init; the     *)
(* status code a POST returns (or the exception it raises) and the text    *)
(* (or failure) of an inference are chosen when the call is made.          *)
(***************************************************************************)
EXTENDS Naturals, Sequences, FiniteSets

VARIABLES
    script,         \* "main" (src/main.py) or "llm" (src/llm/main.py)
    pc,             \* position of the script
    folders,        \* glob("./reports/*/"): sequence of [name, mtime, files]
    webhookUrl,     \* os.getenv("DISCORD_WEBHOOK_URL"): [set, value]
    modelOk,        \* whether the model file can be loaded
    inputFile,      \* discord_today_messages.json: [exists, messages]
    latest_folder,  \* index into folders, 0 before selection
    json_files,     \* sequence of paths
    llm,            \* TRUE once the model is loaded
    idx,            \* position of the for loop in json_files
    json_path,      \* path of the channel file being processed
    file_name,      \* name of the channel being processed
    messages,       \* messages of the channel being processed
    prompt,         \* last prompt built
    text,           \* last model output
    trace,          \* file reads, model invocations and POSTs, in order
    console,        \* delivery reports printed
    err,            \* the exception that ended the run, "" if none
    promptFile      \* content of prompt.txt, <<>> while not written

vars == <<script, pc, folders, webhookUrl, modelOk, inputFile, latest_folder,
          json_files, llm, idx, json_path, file_name, messages, prompt, text, trace,
          console, err, promptFile>>

-----------------------------------------------------------------------------
(* Bounds of the inputs.                                                   *)

MaxFolders == 3
MaxMtime == 3
MaxFiles == 3
MaxMsgs == 2
MaxStrLen == 1

(* Sequences over S of length at most n.                                   *)
SeqUpTo(S, n) == UNION {[1..k -> S] : k \in 0..n}

Chars == {"a", "\n"}
Strings == SeqUpTo(Chars, MaxStrLen)
Authors == {<<>>, <<"a">>, <<"\n">>}
Messages == [author : Authors, content : Strings]
MsgLists == SeqUpTo(Messages, MaxMsgs)

(* The message logs of the channel files of the loop inputs.               *)
PlainMsg == [author |-> <<"a">>, content |-> <<"a">>]
LoopMsgLists == {<<>>, <<PlainMsg>>}

(* The values the webhook answers with, the exceptions requests.post       *)
(* raises when no response arrives, and the texts the model returns.       *)
StatusCodes == {200, 204, 404}
PostErrors == {"ConnectionError", "Timeout"}
Texts == {<<>>, <<"s">>}

(* The environment variable: unset, set to the empty string, set.          *)
WebhookUrls == {[set |-> FALSE, value |-> <<>>],
                [set |-> TRUE, value |-> <<>>],
                [set |-> TRUE, value |-> <<"u">>]}

ChannelNames == <<"general", "random", "dev", "news", "help", "bots">>
ChannelName(j) == <<ChannelNames[j]>>

File(j, e, ms) == [base |-> ChannelName(j), ext |-> e, messages |-> ms]

(* The file lists of a folder: up to MaxFiles files, each a text file or a *)
(* JSON file holding a message array.                                      *)
FileKinds == {[ext |-> "txt", messages |-> <<>>]}
             \cup {[ext |-> "json", messages |-> ms] : ms \in LoopMsgLists}
FileLists ==
    {[j \in 1..Len(ks) |-> File(j, ks[j].ext, ks[j].messages)] :
        ks \in SeqUpTo(FileKinds, MaxFiles)}

(* A folder of another run: one text file and one JSON file.               *)
OtherFiles == <<File(1, "txt", <<>>), File(2, "json", <<PlainMsg>>)>>

(* Folder names.  PlainName(i) is the name of the i-th folder where the    *)
(* names play no part: i letters "r", no two alike, none a pattern.        *)
PlainName(i) == [k \in 1..i |-> "r"]

(* Names with and without the metacharacters of glob.                      *)
NameSet == {<<"a", "b">>, <<"a", "a">>, <<"a">>,
            <<"a", "[", "b", "]">>, <<"a", "*">>, <<"a", "?">>,
            <<"[", "a", "]">>, <<"[", "a">>, <<"[", "]", "a", "]">>, <<"]">>}

(* The file lists of the folders whose names vary.                         *)
NamedFileLists == {<<>>, <<File(1, "json", <<>>)>>, <<File(1, "json", <<PlainMsg>>)>>}

-----------------------------------------------------------------------------
(* Pure functions of the scripts.                                          *)

(* max(folders, key=os.path.getmtime): the first folder of greatest mtime. *)
LatestFolder(fs) ==
    CHOOSE i \in DOMAIN fs :
        /\ \A j \in DOMAIN fs : fs[i].mtime >= fs[j].mtime
        /\ \A j \in 1..(i - 1) : fs[j].mtime < fs[i].mtime

Path(d, j, f) == [dir |-> d, pos |-> j, base |-> f.base, ext |-> f.ext]

RECURSIVE GlobFrom(_, _, _)
GlobFrom(d, files, j) ==
    IF j > Len(files) THEN <<>>
    ELSE (IF files[j].ext = "json" THEN <<Path(d, j, files[j])>> ELSE <<>>)
         \o GlobFrom(d, files, j + 1)

(* glob.has_magic                                                          *)
HasMagic(s) == \E i \in DOMAIN s : s[i] \in {"*", "?", "["}

(* fnmatch.translate: the index of the "]" that closes the class opened at *)
(* p[1] = "[", 0 if none does; a "]" right after the "[" is a member.      *)
RECURSIVE ClassScan(_, _)
ClassScan(p, j) ==
    IF j > Len(p) THEN 0
    ELSE IF p[j] = "]" THEN j
    ELSE ClassScan(p, j + 1)
ClassEnd(p) ==
    IF Len(p) >= 2 /\ p[2] = "]" THEN ClassScan(p, 3) ELSE ClassScan(p, 2)

(* fnmatch.fnmatchcase(n, p) for patterns of letters, "*", "?", "[", "]".  *)
RECURSIVE FnMatch(_, _)
FnMatch(p, n) ==
    IF p = <<>> THEN n = <<>>
    ELSE IF p[1] = "*"
    THEN \E k \in 0..Len(n) : FnMatch(Tail(p), SubSeq(n, k + 1, Len(n)))
    ELSE IF p[1] = "?"
    THEN n # <<>> /\ FnMatch(Tail(p), Tail(n))
    ELSE IF p[1] = "[" /\ ClassEnd(p) # 0
    THEN /\ n # <<>>
         /\ n[1] \in {p[k] : k \in 2..(ClassEnd(p) - 1)}
         /\ FnMatch(SubSeq(p, ClassEnd(p) + 1, Len(p)), Tail(n))
    ELSE n # <<>> /\ n[1] = p[1] /\ FnMatch(Tail(p), Tail(n))

(* The JSON files of the folders from j on whose names match pattern p, in *)
(* the order of the directory listing.                                     *)
RECURSIVE GlobDirs(_, _, _)
GlobDirs(fs, p, j) ==
    IF j > Len(fs) THEN <<>>
    ELSE (IF FnMatch(p, fs[j].name) THEN GlobFrom(j, fs[j].files, 1) ELSE <<>>)
         \o GlobDirs(fs, p, j + 1)

(* glob.glob(os.path.join(latest_folder, "*.json")): the folder's path is   *)
(* part of the pattern, unescaped.  A name without metacharacter names the *)
(* folder itself; one with a metacharacter is matched against the names of *)
(* all report folders.                                                     *)
GlobJson(fs, d) ==
    IF HasMagic(fs[d].name)
    THEN GlobDirs(fs, fs[d].name, 1)
    ELSE GlobFrom(d, fs[d].files, 1)

(* os.path.splitext(os.path.basename(json_path))[0]                        *)
FileName(path) == path.base

(* json.load(open(json_path))                                              *)
JsonLoad(fs, path) == fs[path.dir].files[path.pos].messages

(* Faulty variant of FileAt: the list is walked from its end.              *)
FileAt_Reversed(files, i) == files[Len(files) + 1 - i]
(* for json_path in json_files: the path of the i-th iteration.            *)
FileAt(files, i) == files[i]

(* Faulty variant of Falsy: an empty array is not recognised.              *)
Falsy_Never(ms) == FALSE
(* `not messages`                                                          *)
Falsy(ms) == ms = <<>>

(* Faulty variant of WebhookMissing: only an unset variable is rejected    *)
(* (`is None`).                                                            *)
WebhookMissing_NoneOnly(url) == ~url.set
(* `not WEBHOOK_URL`: unset (None) or the empty string.                    *)
WebhookMissing(url) == ~url.set \/ url.value = <<>>

(* Faulty variant of IsSuccess: every 2xx status counts as success.        *)
IsSuccess_Any2xx(status) == status >= 200 /\ status < 300
(* response.status_code == 204                                             *)
IsSuccess(status) == status = 204

(* Faulty variant of FormatLine: the separator lacks its space.            *)
FormatLine_NoSpace(msg) == msg.author \o <<":">> \o msg.content
(* f"{msg['author']}: {msg['content']}"                                    *)
FormatLine(msg) == msg.author \o <<":", " ">> \o msg.content

Lines(ms) == [k \in 1..Len(ms) |-> FormatLine(ms[k])]

(* sep.join(ls)                                                            *)
RECURSIVE Join(_, _)
Join(ls, sep) ==
    IF ls = <<>> THEN <<>>
    ELSE IF Len(ls) = 1 THEN ls[1]
    ELSE ls[1] \o sep \o Join(Tail(ls), sep)

Conversation(ms) == Join(Lines(ms), <<"\n">>)

PromptHeader == <<"Summarize the following conversation (in Japanese):", "\n", "\n">>
PromptFooter == <<"\n", "\n", "Summary:", "\n">>

BuildPrompt(conversation) == PromptHeader \o conversation \o PromptFooter

(* The data["content"] of the two deliveries.                              *)
NoActivityContent(name) ==
    <<"**">> \o name
    \o <<" channel had no messages in the past day.**", "\n", "There is no summary.">>
SummaryContent(name, t) ==
    <<"**">> \o name \o <<" channel summary**", "\n">> \o t

(* The line printed after a POST.                                          *)
Report(name, status) ==
    IF IsSuccess(status)
    THEN [kind |-> "sent", name |-> name, status |-> 0]
    ELSE [kind |-> "send failed", name |-> <<>>, status |-> status]

Event(op, i, path, payload, status) ==
    [op |-> op, idx |-> i, path |-> path, payload |-> payload, status |-> status]

NoPath == [dir |-> 0, pos |-> 0, base |-> <<>>, ext |-> ""]

-----------------------------------------------------------------------------
(* Initial states: the inputs of a run.                                    *)

MainStart ==
    /\ script = "main"
    /\ pc = "locate"
    /\ inputFile = [exists |-> FALSE, messages |-> <<>>]
    /\ latest_folder = 0
    /\ json_files = <<>>
    /\ llm = FALSE
    /\ idx = 0
    /\ json_path = NoPath
    /\ file_name = <<>>
    /\ messages = <<>>
    /\ prompt = <<>>
    /\ text = <<>>
    /\ trace = <<>>
    /\ console = <<>>
    /\ err = ""
    /\ promptFile = <<>>

GoodUrl == [set |-> TRUE, value |-> <<"u">>]

(* Any folders with any modification times, each holding the same two      *)
(* files; the configuration is complete.                                   *)
InitLocate ==
    /\ MainStart
    /\ \E ms \in SeqUpTo(1..MaxMtime, MaxFolders) :
          folders = [i \in 1..Len(ms) |->
                        [name |-> PlainName(i), mtime |-> ms[i],
                         files |-> <<File(1, "json", <<>>), File(2, "txt", <<>>)>>]]
    /\ webhookUrl = GoodUrl
    /\ modelOk = TRUE

(* No folder, one folder, or one folder beside an older or an equally old  *)
(* one; any file list in it; any configuration.                            *)
InitLoop ==
    /\ MainStart
    /\ \/ folders = <<>>
       \/ \E fl \in FileLists :
            \/ folders = <<[name |-> PlainName(1), mtime |-> 2, files |-> fl]>>
            \/ folders = <<[name |-> PlainName(1), mtime |-> 1, files |-> OtherFiles],
                           [name |-> PlainName(2), mtime |-> 2, files |-> fl]>>
            \/ folders = <<[name |-> PlainName(1), mtime |-> 2, files |-> fl],
                           [name |-> PlainName(2), mtime |-> 2, files |-> OtherFiles]>>
    /\ webhookUrl \in WebhookUrls
    /\ modelOk \in BOOLEAN

(* One folder holding one channel file with any message log.               *)
InitFormat ==
    /\ MainStart
    /\ \E ms \in MsgLists :
          folders = <<[name |-> PlainName(1), mtime |-> 1,
                       files |-> <<File(1, "json", ms)>>]>>
    /\ webhookUrl = GoodUrl
    /\ modelOk = TRUE

(* One folder, or two of different age, with names of NameSet, no two      *)
(* alike; the configuration is complete.                                   *)
InitNames ==
    /\ MainStart
    /\ \E n1 \in NameSet, f1 \in NamedFileLists :
          \/ folders = <<[name |-> n1, mtime |-> 1, files |-> f1]>>
          \/ \E n2 \in NameSet \ {n1}, f2 \in NamedFileLists, m \in {0, 2} :
                folders = <<[name |-> n1, mtime |-> 1, files |-> f1],
                            [name |-> n2, mtime |-> m, files |-> f2]>>
    /\ webhookUrl = GoodUrl
    /\ modelOk = TRUE

(* src/llm/main.py: the input file exists or not, with any message log.    *)
InitLlm ==
    /\ script = "llm"
    /\ pc = "l_read"
    /\ \/ inputFile = [exists |-> FALSE, messages |-> <<>>]
       \/ \E ms \in MsgLists : inputFile = [exists |-> TRUE, messages |-> ms]
    /\ folders = <<>>
    /\ webhookUrl = [set |-> FALSE, value |-> <<>>]
    /\ modelOk = FALSE
    /\ latest_folder = 0
    /\ json_files = <<>>
    /\ llm = FALSE
    /\ idx = 0
    /\ json_path = NoPath
    /\ file_name = <<>>
    /\ messages = <<>>
    /\ prompt = <<>>
    /\ text = <<>>
    /\ trace = <<>>
    /\ console = <<>>
    /\ err = ""
    /\ promptFile = <<>>

Init == InitLocate \/ InitLoop \/ InitFormat \/ InitNames \/ InitLlm

-----------------------------------------------------------------------------
(* src/main.py                                                             *)

inputs == <<script, folders, webhookUrl, modelOk, inputFile>>
channel == <<json_path, file_name, messages>>

Raise(e) == pc' = "error" /\ err' = e

(* Faulty variant of Locate: no folder is taken as no file, and the run    *)
(* goes on.                                                                *)
Locate_EmptyIsNoFiles ==
    /\ script = "main" /\ pc = "locate"
    /\ IF folders = <<>>
       THEN /\ pc' = "load"
            /\ UNCHANGED <<latest_folder, err>>
       ELSE /\ latest_folder' = LatestFolder(folders)
            /\ pc' = "glob"
            /\ UNCHANGED err
    /\ UNCHANGED <<inputs, json_files, llm, idx, channel, prompt, text, trace,
                   console, promptFile>>
(* Lines 8-10.  max() of an empty list raises ValueError.                  *)
Locate ==
    /\ script = "main" /\ pc = "locate"
    /\ IF folders = <<>>
       THEN /\ Raise("ValueError")
            /\ UNCHANGED latest_folder
       ELSE /\ latest_folder' = LatestFolder(folders)
            /\ pc' = "glob"
            /\ UNCHANGED err
    /\ UNCHANGED <<inputs, json_files, llm, idx, channel, prompt, text, trace,
                   console, promptFile>>

(* Lines 12-15.                                                            *)
Glob ==
    /\ script = "main" /\ pc = "glob"
    /\ json_files' = GlobJson(folders, latest_folder)
    /\ pc' = "load"
    /\ UNCHANGED <<inputs, latest_folder, llm, idx, channel, prompt, text,
                   trace, console, err, promptFile>>

(* Lines 17-21.  Llama(...) raises when the model cannot be loaded.        *)
LoadModel ==
    /\ script = "main" /\ pc = "load"
    /\ IF modelOk
       THEN /\ llm' = TRUE
            /\ pc' = "env"
            /\ UNCHANGED err
       ELSE /\ Raise("ModelLoadError")
            /\ UNCHANGED llm
    /\ UNCHANGED <<inputs, latest_folder, json_files, idx, channel, prompt,
                   text, trace, console, promptFile>>

(* Lines 23-27.                                                            *)
CheckWebhook ==
    /\ script = "main" /\ pc = "env"
    /\ IF WebhookMissing(webhookUrl)
       THEN /\ Raise("Exception")
            /\ UNCHANGED idx
       ELSE /\ pc' = "for"
            /\ idx' = 1
            /\ UNCHANGED err
    /\ UNCHANGED <<inputs, latest_folder, json_files, llm, channel, prompt,
                   text, trace, console, promptFile>>

(* Lines 29-34: the next iteration of the for loop, or its end.            *)
NextFile ==
    /\ script = "main" /\ pc = "for"
    /\ IF idx > Len(json_files)
       THEN /\ pc' = "done"
            /\ UNCHANGED <<channel, trace>>
       ELSE /\ json_path' = FileAt(json_files, idx)
            /\ file_name' = FileName(json_path')
            /\ messages' = JsonLoad(folders, json_path')
            /\ trace' = Append(trace, Event("read", idx, json_path', <<>>, 0))
            /\ pc' = "check"
    /\ UNCHANGED <<inputs, latest_folder, json_files, llm, idx, prompt, text,
                   console, err, promptFile>>

(* requests.post(WEBHOOK_URL, json=data) and the report of its status.     *)
Post(content, status) ==
    /\ trace' = Append(trace, Event("post", idx, json_path, content, status))
    /\ console' = Append(console, Report(file_name, status))

(* requests.post raises (no try/except around it): the run ends there,     *)
(* nothing is printed.                                                     *)
PostRaises(content, e) ==
    /\ trace' = Append(trace, Event("post_raised", idx, json_path, content, 0))
    /\ Raise(e)
    /\ UNCHANGED <<console, idx>>

(* Lines 36-46: the empty branch, ended by `continue`, or by the exception *)
(* of requests.post.                                                       *)
SendEmptyNotice ==
    /\ script = "main" /\ pc = "check"
    /\ Falsy(messages)
    /\ \/ /\ \E status \in StatusCodes :
                Post(NoActivityContent(file_name), status)
          /\ pc' = "for"
          /\ idx' = idx + 1
          /\ UNCHANGED err
       \/ \E e \in PostErrors : PostRaises(NoActivityContent(file_name), e)
    /\ UNCHANGED <<inputs, latest_folder, json_files, llm, channel, prompt,
                   text, promptFile>>

(* Lines 48-64: build the prompt and invoke the model; a failed inference  *)
(* propagates.                                                             *)
Summarize ==
    /\ script = "main" /\ pc = "check"
    /\ ~Falsy(messages)
    /\ prompt' = BuildPrompt(Conversation(messages))
    /\ trace' = Append(trace, Event("infer", idx, json_path, prompt', 0))
    /\ \/ \E t \in Texts :
            /\ text' = t
            /\ pc' = "send"
            /\ UNCHANGED err
       \/ /\ Raise("InferenceError")
          /\ UNCHANGED text
    /\ UNCHANGED <<inputs, latest_folder, json_files, llm, idx, channel,
                   console, promptFile>>

(* Faulty variant of SendSummary: a failed delivery is sent again.         *)
SendSummary_Retry ==
    /\ script = "main" /\ pc = "send"
    /\ \/ \E status \in StatusCodes :
            /\ Post(SummaryContent(file_name, text), status)
            /\ IF IsSuccess(status)
               THEN pc' = "for" /\ idx' = idx + 1
               ELSE pc' = "send" /\ UNCHANGED idx
            /\ UNCHANGED err
       \/ \E e \in PostErrors : PostRaises(SummaryContent(file_name, text), e)
    /\ UNCHANGED <<inputs, latest_folder, json_files, llm, channel, prompt,
                   text, promptFile>>
(* Lines 66-74: deliver the summary; the loop body ends, or requests.post  *)
(* raises.                                                                 *)
SendSummary ==
    /\ script = "main" /\ pc = "send"
    /\ \/ /\ \E status \in StatusCodes :
                Post(SummaryContent(file_name, text), status)
          /\ pc' = "for"
          /\ idx' = idx + 1
          /\ UNCHANGED err
       \/ \E e \in PostErrors : PostRaises(SummaryContent(file_name, text), e)
    /\ UNCHANGED <<inputs, latest_folder, json_files, llm, channel, prompt,
                   text, promptFile>>

-----------------------------------------------------------------------------
(* src/llm/main.py                                                         *)

(* Faulty variant of LlmRead: a missing file is read as an empty array.    *)
LlmRead_MissingIsEmpty ==
    /\ script = "llm" /\ pc = "l_read"
    /\ messages' = inputFile.messages
    /\ pc' = "l_format"
    /\ UNCHANGED <<inputs, latest_folder, json_files, llm, idx, json_path,
                   file_name, prompt, text, trace, console, err, promptFile>>
(* Lines 3-5.  open() of a missing file raises FileNotFoundError.          *)
LlmRead ==
    /\ script = "llm" /\ pc = "l_read"
    /\ IF inputFile.exists
       THEN /\ messages' = inputFile.messages
            /\ pc' = "l_format"
            /\ UNCHANGED err
       ELSE /\ Raise("FileNotFoundError")
            /\ UNCHANGED messages
    /\ UNCHANGED <<inputs, latest_folder, json_files, llm, idx, json_path,
                   file_name, prompt, text, trace, console, promptFile>>

(* Lines 7-17.                                                             *)
LlmFormat ==
    /\ script = "llm" /\ pc = "l_format"
    /\ prompt' = BuildPrompt(Conversation(messages))
    /\ pc' = "l_write"
    /\ UNCHANGED <<inputs, latest_folder, json_files, llm, idx, channel, text,
                   trace, console, err, promptFile>>

(* Lines 19-23.                                                            *)
LlmWrite ==
    /\ script = "llm" /\ pc = "l_write"
    /\ promptFile' = prompt
    /\ pc' = "done"
    /\ UNCHANGED <<inputs, latest_folder, json_files, llm, idx, channel,
                   prompt, text, trace, console, err>>

Next ==
    \/ Locate \/ Glob \/ LoadModel \/ CheckWebhook
    \/ NextFile \/ SendEmptyNotice \/ Summarize \/ SendSummary
    \/ LlmRead \/ LlmFormat \/ LlmWrite

Spec == Init /\ [][Next]_vars

-----------------------------------------------------------------------------
(* Vocabulary of the properties.                                           *)

IsPost(e) == e.op = "post"
IsInfer(e) == e.op = "infer"
(* A call of requests.post, answered or not.                               *)
IsAttempt(e) == e.op \in {"post", "post_raised"}
Posts == SelectSeq(trace, IsPost)

(* The message array stored in the file an event is about.                 *)
Stored(e) == folders[e.path.dir].files[e.path.pos].messages

NoticeText(e) ==
    <<"**">> \o e.path.base
    \o <<" channel had no messages in the past day.**", "\n", "There is no summary.">>

UrlGiven == webhookUrl.set /\ webhookUrl.value # <<>>

(* C1: for a channel whose message array is empty the model is never       *)
(* invoked, and what is POSTed for it (answered or not) is the fixed       *)
(* no-messages notice naming the channel.                                  *)
C1_EmptyChannelSkipsModel ==
    \A k \in DOMAIN trace :
        Stored(trace[k]) = <<>> =>
            /\ trace[k].op # "infer"
            /\ IsAttempt(trace[k]) => trace[k].payload = NoticeText(trace[k])

C1_Witness ==
    /\ pc = "done"
    /\ \E k \in DOMAIN trace : IsPost(trace[k]) /\ Stored(trace[k]) = <<>>
    /\ \E k \in DOMAIN trace : IsInfer(trace[k])

(* C2: a POST answered 204 is reported as sent and any other status as a   *)
(* failure; no response ends the run: after every answered POST, of either *)
(* branch, the loop moves on to the next channel file; a run that fails in *)
(* the loop fails in a call that raised (an inference, or a POST that got  *)
(* no response); a run that ends normally has POSTed for every channel     *)
(* file.                                                                   *)
C2_StatusReportedRunContinues ==
    /\ Len(console) = Len(Posts)
    /\ \A k \in DOMAIN console :
        /\ console[k].kind = "sent" <=> Posts[k].status = 204
        /\ console[k].kind # "sent" =>
              console[k].kind = "send failed" /\ console[k].status = Posts[k].status
    /\ (pc = "error" /\ trace # <<>>) =>
          /\ trace[Len(trace)].op \in {"infer", "post_raised"}
          /\ trace[Len(trace)].op = "infer" => err = "InferenceError"
          /\ trace[Len(trace)].op = "post_raised" =>
                err \in {"ConnectionError", "Timeout"}
    /\ (trace # <<>> /\ IsPost(trace[Len(trace)])) =>
          /\ pc \in {"for", "done"}
          /\ idx = trace[Len(trace)].idx + 1
    /\ (script = "main" /\ pc = "done") =>
          \A i \in DOMAIN json_files :
              \E k \in DOMAIN Posts : Posts[k].path = json_files[i]

C2_Witness ==
    /\ pc = "done"
    /\ Len(Posts) = 3
    /\ Posts[1].status = 404 /\ Stored(Posts[1]) = <<>>
    /\ Posts[2].status = 200 /\ Stored(Posts[2]) # <<>>
    /\ Posts[3].status = 204

(* The conversation between the fixed head and tail of a prompt, and its   *)
(* lines.                                                                  *)
ConversationOf(p) == SubSeq(p, Len(PromptHeader) + 1, Len(p) - Len(PromptFooter))

HasBreak(s) == \E i \in DOMAIN s : s[i] = "\n"

RECURSIVE SplitLines(_)
SplitLines(s) ==
    IF ~HasBreak(s) THEN <<s>>
    ELSE LET i == CHOOSE i \in DOMAIN s :
                    s[i] = "\n" /\ \A j \in 1..(i - 1) : s[j] # "\n"
         IN  <<SubSeq(s, 1, i - 1)>> \o SplitLines(SubSeq(s, i + 1, Len(s)))

PromptBuilt ==
    \/ script = "main" /\ pc = "send"
    \/ script = "llm" /\ pc \in {"l_write", "done"}

OneLinePerMessage ==
    LET ls == SplitLines(ConversationOf(prompt))
    IN  /\ Len(ls) = Len(messages)
        /\ \A k \in DOMAIN messages :
              ls[k] = messages[k].author \o <<":", " ">> \o messages[k].content

NoBreaks(ms) ==
    \A k \in DOMAIN ms : ~HasBreak(ms[k].author) /\ ~HasBreak(ms[k].content)

(* C3 as stated: for every non-empty message sequence, whatever the        *)
(* strings, the conversation in the prompt has one line per message, in    *)
(* order, each "{author}: {content}".                                      *)
C3_AsStated == (PromptBuilt /\ messages # <<>>) => OneLinePerMessage

(* C3, amended: the same for every non-empty message sequence whose        *)
(* authors and contents contain no line break.                             *)
C3_OneLinePerMessage ==
    (PromptBuilt /\ messages # <<>> /\ NoBreaks(messages)) => OneLinePerMessage

C3_Witness ==
    /\ script = "main" /\ pc = "send"
    /\ Len(messages) = 2
    /\ NoBreaks(messages)
    /\ messages[1] # messages[2]

(* The JSON files the latest folder holds, and whether its name is free of *)
(* glob metacharacters.                                                    *)
LatestOwnJson ==
    GlobFrom(LatestFolder(folders), folders[LatestFolder(folders)].files, 1)
LatestPlain == ~HasMagic(folders[LatestFolder(folders)].name)

AllEmptyLatest ==
    /\ script = "main"
    /\ folders # <<>>
    /\ \A i \in DOMAIN LatestOwnJson : JsonLoad(folders, LatestOwnJson[i]) = <<>>

NoticePerFile ==
    /\ Len(trace) = 2 * Len(LatestOwnJson)
    /\ Len(Posts) = Len(LatestOwnJson)
    /\ \A i \in DOMAIN Posts :
          Posts[i].path = LatestOwnJson[i] /\ Posts[i].payload = NoticeText(Posts[i])

(* C4: in a run whose startup succeeds (the model loads, the webhook URL   *)
(* is set) and whose latest folder, of a name without metacharacter, holds *)
(* channel files with empty message arrays only, no fatal error occurs,    *)
(* and the run that has ended has sent exactly one no-activity notice per  *)
(* channel file.                                                           *)
C4_AsStated ==
    (AllEmptyLatest /\ LatestPlain /\ LatestOwnJson # <<>> /\ modelOk /\ UrlGiven) =>
        /\ pc # "error"
        /\ pc = "done" => NoticePerFile

(* C5 as stated: a run never completes normally when the latest folder (of *)
(* a name without metacharacter) holds no JSON file (main.py) or the input *)
(* file is missing (llm/main.py).                                          *)
C5_AsStated ==
    pc = "done" =>
        /\ ~(script = "main" /\ LatestPlain /\ LatestOwnJson = <<>>)
        /\ ~(script = "llm" /\ ~inputFile.exists)

(* C5, amended: in llm/main.py a missing input file ends the run with      *)
(* FileNotFoundError and no prompt is written; in main.py a run whose glob *)
(* finds no JSON file, as it does for a latest folder without JSON file    *)
(* whose name holds no glob metacharacter, is no error: no file is read,   *)
(* nothing is invoked or POSTed, and the run fails only if the model load  *)
(* or the webhook check fails.                                             *)
C5_MissingInput ==
    /\ (script = "llm" /\ ~inputFile.exists) =>
          /\ pc \in {"l_read", "error"}
          /\ pc = "error" => err = "FileNotFoundError"
          /\ prompt = <<>> /\ promptFile = <<>>
    /\ (script = "main" /\ folders # <<>> /\ pc \notin {"locate", "glob"}) =>
          /\ (LatestPlain /\ LatestOwnJson = <<>>) => json_files = <<>>
          /\ json_files = <<>> =>
                /\ trace = <<>> /\ console = <<>>
                /\ pc = "error" => err \in {"ModelLoadError", "Exception"}
                /\ (pc = "error" /\ err = "ModelLoadError") => ~modelOk
                /\ (pc = "error" /\ err = "Exception") => ~UrlGiven

C5_Witness ==
    /\ script = "main" /\ pc = "done"
    /\ folders # <<>> /\ folders[latest_folder].files # <<>>
    /\ LatestPlain /\ LatestOwnJson = <<>>
    /\ json_files = <<>>

(* C6: with no report folder the run ends in the ValueError of max() of    *)
(* an empty list, before the model is loaded and before any file read,     *)
(* model invocation or POST.                                               *)
C6_NoReportsAborts ==
    (script = "main" /\ folders = <<>>) =>
        /\ pc \in {"locate", "error"}
        /\ pc = "error" => err = "ValueError"
        /\ ~llm
        /\ trace = <<>> /\ console = <<>>

C6_Witness ==
    script = "main" /\ folders = <<>> /\ pc = "error" /\ modelOk /\ UrlGiven

(* C7: with the webhook URL unset or empty the run never enters the loop   *)
(* and never ends normally: no file is read, nothing is invoked or POSTed. *)
C7_NoWebhookAborts ==
    (script = "main" /\ ~UrlGiven) =>
        /\ pc \in {"locate", "glob", "load", "env", "error"}
        /\ pc = "error" => err \in {"ValueError", "ModelLoadError", "Exception"}
        /\ trace = <<>> /\ console = <<>>

C7_Witness ==
    /\ script = "main" /\ pc = "error" /\ err = "Exception"
    /\ webhookUrl.set /\ webhookUrl.value = <<>>
    /\ Len(json_files) = 3

(* C8: the selected folder is one of the candidates and no candidate has a *)
(* greater modification time; of folders with mtimes 1, 2, 3 the one with  *)
(* mtime 3 is selected; every path globbed and every file read is a JSON   *)
(* file of the selected folder.                                            *)
C8_AsStated ==
    /\ (script = "main" /\ pc \notin {"locate", "error"}) => latest_folder # 0
    /\ latest_folder # 0 =>
          /\ latest_folder \in DOMAIN folders
          /\ \A j \in DOMAIN folders :
                folders[latest_folder].mtime >= folders[j].mtime
          /\ (Len(folders) = 3 /\ {folders[j].mtime : j \in 1..3} = {1, 2, 3}) =>
                folders[latest_folder].mtime = 3
    /\ \A i \in DOMAIN json_files :
          /\ json_files[i].dir = latest_folder
          /\ json_files[i].pos \in DOMAIN folders[latest_folder].files
          /\ folders[latest_folder].files[json_files[i].pos].ext = "json"
    /\ \A k \in DOMAIN trace :
          /\ trace[k].path.dir = latest_folder
          /\ trace[k].path.ext = "json"

(* C9: the trace is channel by channel in list order: a read opens channel *)
(* 1 or follows the POST of the channel before; an invocation directly     *)
(* follows the read of its non-empty channel; a POST (answered or not)     *)
(* directly follows the invocation, or the read of an empty channel.       *)
C9_Sequential ==
    \A k \in DOMAIN trace :
        LET e == trace[k] IN
        /\ e.idx \in DOMAIN json_files /\ e.path = json_files[e.idx]
        /\ e.op = "read" =>
              IF k = 1 THEN e.idx = 1
              ELSE IsPost(trace[k - 1]) /\ e.idx = trace[k - 1].idx + 1
        /\ e.op = "infer" =>
              /\ k > 1 /\ trace[k - 1].op = "read" /\ trace[k - 1].idx = e.idx
              /\ Stored(e) # <<>>
        /\ IsAttempt(e) =>
              /\ k > 1 /\ trace[k - 1].idx = e.idx
              /\ \/ IsInfer(trace[k - 1])
                 \/ trace[k - 1].op = "read" /\ Stored(e) = <<>>

C9_Witness ==
    /\ pc = "done"
    /\ Len(json_files) = 3
    /\ Len(trace) = 8
    /\ Stored(trace[1]) # <<>> /\ Stored(trace[4]) = <<>> /\ Stored(trace[6]) # <<>>

PostsFor(i) == Cardinality({k \in DOMAIN trace : IsAttempt(trace[k]) /\ trace[k].idx = i})
InfersFor(i) == Cardinality({k \in DOMAIN trace : IsInfer(trace[k]) /\ trace[k].idx = i})

(* C10: no channel file is POSTed for more than once, whatever the status  *)
(* code or exception; when the loop has ended every channel file has       *)
(* exactly one POST, which was answered, and every non-empty channel       *)
(* exactly one model invocation.                                           *)
C10_NoRetry ==
    /\ \A i \in DOMAIN json_files : PostsFor(i) <= 1 /\ InfersFor(i) <= 1
    /\ \A k \in DOMAIN trace : trace[k].idx \in DOMAIN json_files
    /\ (script = "main" /\ pc = "done") =>
          \A i \in DOMAIN json_files :
              /\ PostsFor(i) = 1
              /\ \E k \in DOMAIN Posts : Posts[k].idx = i
              /\ JsonLoad(folders, json_files[i]) # <<>> => InfersFor(i) = 1

C10_Witness ==
    /\ pc = "done"
    /\ Len(json_files) = 2
    /\ \A k \in DOMAIN Posts : Posts[k].status # 204
    /\ \E k \in DOMAIN trace : IsInfer(trace[k])

=============================================================================
